---- MODULE Spec2Model ----
(***************************************************************************)
(* Model of the WebSocket chat server in src/main.py: the per-room client  *)
(* registry (clients, clients_lock), the SQLite message log and the        *)
(* websocket_endpoint coroutine run once per connection.                   *)
(*                                                                         *)
(* Scheduling is asyncio's: one coroutine runs at a time and gives up the  *)
(* processor only at an await.  The database helpers are synchronous, so   *)
(* everything between two awaits is one atomic step of the model.  The     *)
(* awaits of websocket_endpoint are accept (224), the acquisition of a     *)
(* held clients_lock (236, 263, 285, 304, 320, 324), send_json (242, 267,  *)
(* 289, 308) and receive_json (245).  A send_json hands the frame to the   *)
(* transport when it is called and may then suspend the caller.            *)
(***************************************************************************)
EXTENDS Integers, Sequences, FiniteSets, TLC

\* ------------------------------------------------------------------ bounds
NSess == 3          \* websockets (connections already open included)
MaxConnects == 2    \* connection attempts made in a behaviour
MaxMsgs == 2        \* rows the log ever receives (ids 1..MaxMsgs)
MaxMutations == 3   \* inserts, updates and deletes applied in a behaviour
MaxFaults == 1      \* log calls that raise plus clients that vanish

\* ------------------------------------------------------------------ values
NONE == "<none>"    \* Python's None (an absent optional string)
NoId == -1          \* WSIncoming.id left out (None)
NoSess == 0         \* no coroutine (clients_lock not held)

Sess == 1..NSess
Rooms == {"work", "school"}
Users == {"alice", "bob"}

\* query parameter "token": left out, not decodable, or signed for a user
Tokens == {NONE, "forged", "signed:alice", "signed:bob"}
\* query parameter "room": left out, outside the fixed set, or one of the rooms
RoomParams == {NONE, "lobby", "work", "school"}

Ids == 1..MaxMsgs
\* ids a client may put in a frame: any id the log ever hands out, or none
FrameIds == Ids \cup {NoId}

\* the "message" part of a frame: <<>> when left out, else <<MessageIn fields>>
MsgParts ==
    { <<>>,
      << [name |-> "bob", text |-> "hi", img |-> "png"] >>,
      << [name |-> NONE,  text |-> "hi", img |-> "png"] >> }

\* inbound frames: text that is no JSON, JSON without "action", and the
\* frames of every action (one unknown action among them)
Frames ==
    { [json |-> FALSE, action |-> NONE, id |-> NoId, message |-> <<>>] }
    \cup [json : {TRUE}, action : {NONE, "ping"}, id : {NoId}, message : {<<>>}]
    \cup [json : {TRUE}, action : {"send"}, id : {NoId}, message : MsgParts]
    \cup [json : {TRUE}, action : {"edit"}, id : FrameIds, message : MsgParts]
    \cup [json : {TRUE}, action : {"delete"}, id : FrameIds, message : {<<>>}]

\* which log call of a handler raises: 0 none, k the k-th call it makes
FailChoices == 0..3

\* int(time.time()) as insert_message reads it.  The code stores and returns
\* the value and never looks at it, so one reading stands for all.
Times == {1000}

VARIABLES
    log,        \* table messages: id -> row
    nextId,     \* the AUTOINCREMENT sequence: the id the next insert gets
    clients,    \* clients: room -> list of registered websockets
    lockHolder, \* the coroutine holding clients_lock, or NoSess
    waiters,    \* coroutines blocked in clients_lock.acquire(), in order
    pc,         \* where each websocket_endpoint coroutine is
    conn,       \* each websocket's transport
    username,   \* local username of each coroutine
    room,       \* local room of each coroutine
    updated,    \* local updated of each coroutine (the view it broadcasts)
    bidx,       \* lock holder's position in "for c in clients[room]"
    to_remove,  \* lock holder's local to_remove
    inbox,      \* frames each websocket's client has been sent
    applied,    \* per room, how many mutations its rows have received
    nfaults     \* log calls that raised plus clients that vanished so far

vars == <<log, nextId, clients, lockHolder, waiters, pc, conn, username, room,
          updated, bidx, to_remove, inbox, applied, nfaults>>

\* ------------------------------------------------------------- pure helpers
Range(q) == {q[i] : i \in 1..Len(q)}

\* a removal that falls back on the last element when x is not in the list
RemoveOrPop(q, x) ==
    IF x \in Range(q)
    THEN LET k == CHOOSE i \in 1..Len(q) : q[i] = x /\ \A j \in 1..(i-1) : q[j] # x
         IN  SubSeq(q, 1, k-1) \o SubSeq(q, k+1, Len(q))
    ELSE SubSeq(q, 1, Len(q) - 1)

\* list.remove(x) guarded by "if x in list": drops the first occurrence
RemoveGuarded(q, x) ==
    IF x \in Range(q)
    THEN LET k == CHOOSE i \in 1..Len(q) : q[i] = x /\ \A j \in 1..(i-1) : q[j] # x
         IN  SubSeq(q, 1, k-1) \o SubSeq(q, k+1, Len(q))
    ELSE q

RECURSIVE PruneAll(_, _)
\* for r in to_remove: if r in clients[room]: clients[room].remove(r)
PruneAll(q, rem) ==
    IF rem = <<>> THEN q ELSE PruneAll(RemoveGuarded(q, Head(rem)), Tail(rem))

\* jwt.decode + payload.get("username"); None when decoding raises
verify_token(token) ==
    CASE token = "forged"       -> NONE
      [] token = "signed:alice" -> "alice"
      [] token = "signed:bob"   -> "bob"
      [] OTHER                  -> NONE

\* username = verify_token(token) if token else None
TokenUser(token) == IF token = NONE THEN NONE ELSE verify_token(token)

\* the negation of line 230's test
AuthorizedByRoom(user, r) == r \in Rooms

Authorized(user, r) == user # NONE /\ r \in Rooms

\* ------------------------------------------------------------ message log
insert_message(lg, id, r, name, text, img, ts) ==
    [i \in DOMAIN lg \cup {id} |->
        IF i = id
        THEN [id |-> id, room |-> r, name |-> name, text |-> text, img |-> img, ts |-> ts]
        ELSE lg[i]]

RECURSIVE RowsFrom(_, _, _)
RowsFrom(lg, r, i) ==
    IF i > MaxMsgs + 1 THEN <<>>
    ELSE (IF i \in DOMAIN lg /\ lg[i].room = r THEN <<lg[i]>> ELSE <<>>)
         \o RowsFrom(lg, r, i + 1)

\* SELECT ... WHERE room = ? ORDER BY id ASC
list_messages_for_room(lg, r) == RowsFrom(lg, r, 1)

\* a lookup that still finds a blank row under an id the table does not hold
get_message_soft_deleted(lg, id) ==
    IF id \in DOMAIN lg THEN <<lg[id]>>
    ELSE <<[id |-> id, room |-> "work", name |-> "alice", text |-> NONE, img |-> NONE,
            ts |-> 1000]>>

\* <<row>> or <<>> for None
get_message_by_id(lg, id) == IF id \in DOMAIN lg THEN <<lg[id]>> ELSE <<>>

\* the UPDATE without its WHERE clause
update_message_all(lg, id, text, img) ==
    [i \in DOMAIN lg |-> [lg[i] EXCEPT !.text = text, !.img = img]]

\* UPDATE messages SET text = ?, img = ? WHERE id = ?
update_message(lg, id, text, img) ==
    [i \in DOMAIN lg |-> IF i = id THEN [lg[i] EXCEPT !.text = text, !.img = img] ELSE lg[i]]

delete_message(lg, id) == [i \in DOMAIN lg \ {id} |-> lg[i]]

\* ------------------------------------------------------------ clients_lock
\* asyncio.Lock is fair: a coroutine that finds it held waits behind the ones
\* already waiting
EnqueueFirst(w, s) == <<s>> \o w

Enqueue(w, s) == Append(w, s)

\* release(): the lock passes to the longest-waiting coroutine, if any
Release(w) ==
    [holder  |-> IF w = <<>> THEN NoSess ELSE Head(w),
     waiters |-> IF w = <<>> THEN <<>> ELSE Tail(w)]

\* ------------------------------------------------------ inbound validation
\* WSIncoming(**data): action is required, and so is message.name when a
\* message is given (MessageIn.name: str)
WSIncomingValid(f) ==
    /\ f.action # NONE
    /\ (f.message # <<>> => f.message[1].name # NONE)

\* msg.text if msg else None
TextOf(m) == IF m = <<>> THEN NONE ELSE m[1].text
\* msg.img if msg else None
ImgOf(m) == IF m = <<>> THEN NONE ELSE m[1].img

\* name = username  (line 257): the author stored for a send
SendAuthorFromClient(user, f) == IF f.message = <<>> THEN user ELSE f.message[1].name

SendAuthor(user, f) == user

\* msg_record and msg_record["name"] == username  (lines 279, 301)
AnyoneMayMutate(rec, user) == rec # <<>>

OwnerMayMutate(rec, user) == rec # <<>> /\ rec[1].name = user

\* ------------------------------------------------- pieces of the coroutine
\* The except handlers (319-330) from a state where the registry is cl and the
\* lock is held by lh with w waiting: the guarded removal runs at once under a
\* free lock, otherwise the coroutine waits for the lock first.
DeregisterNothing(q, s) == q

Deregister(q, s) == RemoveGuarded(q, s)

\* the handlers without "async with clients_lock"
CleanupNoLock(s, r, kind, cl, lh, w, cn) ==
    [clients |-> [cl EXCEPT ![r] = Deregister(@, s)],
     holder  |-> lh,
     waiters |-> w,
     pcs     |-> "closed",
     conns   |-> IF kind = "error" THEN "closed" ELSE cn]

Cleanup(s, r, kind, cl, lh, w, cn) ==
    IF lh = NoSess
    THEN [clients |-> [cl EXCEPT ![r] = Deregister(@, s)],
          holder  |-> NoSess,
          waiters |-> w,
          pcs     |-> "closed",
          conns   |-> IF kind = "error" THEN "closed" ELSE cn]
    ELSE [clients |-> cl,
          holder  |-> lh,
          waiters |-> Enqueue(w, s),
          pcs     |-> "cleanup_" \o kind,
          conns   |-> cn]

\* the local updated outside a broadcast block (unassigned, or dead)
NoView == [kind |-> "broadcast", view |-> <<>>, ver |-> 0]

\* is the frame delivered to websocket c?  send_json raises on a transport
\* that is no longer open
SendOk(c) == conn[c] = "open"

\* send_json raises: the transport is gone (the except clause of 268 runs)
SendFails(c) == conn[c] \in {"broken", "closed"}

\* send_json neither returns nor raises: the client has stopped reading and
\* the transport's write buffer is full, so the await never completes
SendHangs(c) == conn[c] = "stalled"

\* "for c in clients[room]" after the send to the i-th of n websockets: the
\* except clause (268-269) swallows a failed send and the loop goes on
NextIndexAbort(i, ok, n) == IF ok THEN i + 1 ELSE n + 1

NextIndex(i, ok, n) == i + 1

\* The broadcast block (263-272, 285-294, 304-313) run by lock holder s from
\* loop position i with to_remove rem, up to its next await: one send_json, or
\* after the last one the pruning, the release and the return to receive_json.
\* bidx is the position of the next send, or of the send that hangs.
BroadcastRun(s, p, i, rem, w) ==
    LET cs == clients[room[s]] IN
    IF i <= Len(cs) /\ SendHangs(cs[i])
    THEN [clients   |-> clients,    \* suspended in this send_json for good
          inbox     |-> inbox,
          to_remove |-> rem,
          bidx      |-> i,
          pcs       |-> "bcast",
          updated   |-> p,
          holder    |-> s,
          waiters   |-> w]
    ELSE IF i <= Len(cs)
    THEN [clients   |-> clients,
          inbox     |-> IF SendOk(cs[i])
                        THEN [inbox EXCEPT ![cs[i]] = Append(@, p)]
                        ELSE inbox,
          to_remove |-> IF SendFails(cs[i]) THEN Append(rem, cs[i]) ELSE rem,
          bidx      |-> NextIndex(i, ~SendFails(cs[i]), Len(cs)),
          pcs       |-> "bcast",
          updated   |-> p,
          holder    |-> s,
          waiters   |-> w]
    ELSE [clients   |-> [clients EXCEPT ![room[s]] = PruneAll(@, rem)],
          inbox     |-> inbox,
          to_remove |-> <<>>,
          bidx      |-> 0,
          pcs       |-> "active",
          updated   |-> NoView,
          holder    |-> Release(w).holder,
          waiters   |-> Release(w).waiters]

Frame(kind, lg, ap, r) ==
    [kind |-> kind, view |-> list_messages_for_room(lg, r), ver |-> ap[r]]

\* ------------------------------------------------------ the receive loop
\* What one pass of the loop body (245-317) does to the log before it either
\* goes back to receive_json ("continue"), raises ("raise") or reaches a
\* broadcast block ("broadcast").  k is the log call that raises, 0 for none.
Bump(ap, r) == [ap EXCEPT ![r] = @ + 1]

SendBranch(s, f, k, now) ==
    LET lg1 == insert_message(log, nextId, room[s], SendAuthor(username[s], f),
                              TextOf(f.message), ImgOf(f.message), now)
    IN  IF k = 1
        THEN [log |-> log, nextId |-> nextId, applied |-> applied, result |-> "raise"]
        ELSE [log |-> lg1, nextId |-> nextId + 1, applied |-> Bump(applied, room[s]),
              result |-> IF k = 2 THEN "raise" ELSE "broadcast"]

EditBranch(s, f, k) ==
    LET rec == get_message_by_id(log, f.id)
        lg1 == update_message(log, f.id, TextOf(f.message), ImgOf(f.message))
    IN  IF f.id = NoId
        THEN [log |-> log, nextId |-> nextId, applied |-> applied, result |-> "continue"]
        ELSE IF k = 1
        THEN [log |-> log, nextId |-> nextId, applied |-> applied, result |-> "raise"]
        ELSE IF ~OwnerMayMutate(rec, username[s])
        THEN [log |-> log, nextId |-> nextId, applied |-> applied, result |-> "continue"]
        ELSE IF k = 2
        THEN [log |-> log, nextId |-> nextId, applied |-> applied, result |-> "raise"]
        ELSE [log |-> lg1, nextId |-> nextId, applied |-> Bump(applied, rec[1].room),
              result |-> IF k = 3 THEN "raise" ELSE "broadcast"]

DeleteBranch(s, f, k) ==
    LET existing == get_message_by_id(log, f.id)
        lg1 == delete_message(log, f.id)
    IN  IF f.id = NoId
        THEN [log |-> log, nextId |-> nextId, applied |-> applied, result |-> "continue"]
        ELSE IF k = 1
        THEN [log |-> log, nextId |-> nextId, applied |-> applied, result |-> "raise"]
        ELSE IF ~OwnerMayMutate(existing, username[s])
        THEN [log |-> log, nextId |-> nextId, applied |-> applied, result |-> "continue"]
        ELSE IF k = 2
        THEN [log |-> log, nextId |-> nextId, applied |-> applied, result |-> "raise"]
        ELSE [log |-> lg1, nextId |-> nextId, applied |-> Bump(applied, existing[1].room),
              result |-> IF k = 3 THEN "raise" ELSE "broadcast"]

\* the log calls the pass makes when none of them raises
LogCalls(s, f) ==
    IF ~f.json \/ ~WSIncomingValid(f) THEN 0
    ELSE IF f.action = "send" THEN 2
    ELSE IF f.action \in {"edit", "delete"}
    THEN (IF f.id = NoId THEN 0
          ELSE IF OwnerMayMutate(get_message_by_id(log, f.id), username[s]) THEN 3
          ELSE 1)
    ELSE 0

LoopBody(s, f, k, now) ==
    IF ~f.json   \* receive_json raises on text that is no JSON (245)
    THEN [log |-> log, nextId |-> nextId, applied |-> applied, result |-> "raise"]
    ELSE IF ~WSIncomingValid(f)   \* skip bad messages (247-251)
    THEN [log |-> log, nextId |-> nextId, applied |-> applied, result |-> "continue"]
    ELSE IF f.action = "send" THEN SendBranch(s, f, k, now)
    ELSE IF f.action = "edit" THEN EditBranch(s, f, k)
    ELSE IF f.action = "delete" THEN DeleteBranch(s, f, k)
    ELSE [log |-> log, nextId |-> nextId, applied |-> applied, result |-> "continue"]

\* mutations applied to the log so far, over all rooms
Mutations == applied["work"] + applied["school"]

\* ------------------------------------------------------------------ state
Init ==
    /\ log = <<>>
    /\ nextId = 1
    /\ clients = [r \in Rooms |-> <<>>]
    /\ lockHolder = NoSess
    /\ waiters = <<>>
    /\ pc = [s \in Sess |-> "idle"]
    /\ conn = [s \in Sess |-> "idle"]
    /\ username = [s \in Sess |-> NONE]
    /\ room = [s \in Sess |-> NONE]
    /\ updated = [s \in Sess |-> NoView]
    /\ bidx = 0
    /\ to_remove = <<>>
    /\ inbox = [s \in Sess |-> <<>>]
    /\ applied = [r \in Rooms |-> 0]
    /\ nfaults = 0

\* Lines 236-242 run by s for room r once it has the lock (or finds it free):
\* register, release, list the room, send the snapshot.  rel is the lock after
\* the release, cn the transport of s, fails whether the list call raises, kind
\* the handler that catches what a send_json on a dead transport raises.
Join(s, r, cn, rel, fails, kind) ==
    LET cl1 == [clients EXCEPT ![r] = Append(@, s)]
        out == Cleanup(s, r, kind, cl1, rel.holder, rel.waiters, cn)
    IN  IF fails \/ cn # "open"
        THEN /\ clients' = out.clients
             /\ lockHolder' = out.holder
             /\ waiters' = out.waiters
             /\ pc' = [pc EXCEPT ![s] = out.pcs]
             /\ conn' = [conn EXCEPT ![s] = out.conns]
             /\ inbox' = inbox
        ELSE /\ clients' = cl1
             /\ lockHolder' = rel.holder
             /\ waiters' = rel.waiters
             /\ pc' = [pc EXCEPT ![s] = "active"]
             /\ conn' = [conn EXCEPT ![s] = cn]
             /\ inbox' = [inbox EXCEPT ![s] = Append(@, Frame("snapshot", log, applied, r))]

CleanupKinds == {"disconnect", "error"}

\* The query parameters connection s may present.  Users and rooms are
\* interchangeable in the code, so the first connection that is let in is
\* taken to be alice's, in room work.
ConnectParams(s) ==
    IF s = 1
    THEN {<<NONE, "work">>, <<"forged", "work">>, <<"signed:alice", "lobby">>,
          <<"signed:alice", NONE>>, <<"signed:alice", "work">>}
    ELSE Tokens \X RoomParams

\* ----------------------------------------------------------------- actions
\* A client connects with query parameters token and r (222-242).
Connect(s, token, r, fails) ==
    /\ pc[s] = "idle"
    /\ \A t \in 1..(s-1) : pc[t] # "idle"   \* connections are numbered as they arrive
    /\ s <= MaxConnects
    /\ IF ~Authorized(TokenUser(token), r)
       THEN /\ ~fails
            /\ pc' = [pc EXCEPT ![s] = "closed"]
            /\ conn' = [conn EXCEPT ![s] = "closed"]
            /\ UNCHANGED <<clients, lockHolder, waiters, inbox, nfaults, username, room>>
       ELSE IF lockHolder # NoSess
       THEN /\ ~fails
            /\ username' = [username EXCEPT ![s] = TokenUser(token)]
            /\ room' = [room EXCEPT ![s] = r]
            /\ pc' = [pc EXCEPT ![s] = "join_wait"]
            /\ conn' = [conn EXCEPT ![s] = "open"]
            /\ waiters' = Enqueue(waiters, s)
            /\ UNCHANGED <<clients, lockHolder, inbox, nfaults>>
       ELSE /\ username' = [username EXCEPT ![s] = TokenUser(token)]
            /\ room' = [room EXCEPT ![s] = r]
            /\ fails => nfaults < MaxFaults
            /\ nfaults' = IF fails THEN nfaults + 1 ELSE nfaults
            /\ Join(s, r, "open", [holder |-> NoSess, waiters |-> waiters], fails, "error")
    /\ UNCHANGED <<log, nextId, updated, bidx, to_remove, applied>>

\* A coroutine waiting at line 236 is handed the lock.
JoinGranted(s, fails, kind) ==
    /\ pc[s] = "join_wait"
    /\ lockHolder = s
    /\ fails => nfaults < MaxFaults
    /\ (fails \/ conn[s] = "open") => kind = "error"
    /\ nfaults' = IF fails THEN nfaults + 1 ELSE nfaults
    /\ Join(s, room[s], conn[s], Release(waiters), fails, kind)
    /\ UNCHANGED <<log, nextId, username, room, updated, bidx, to_remove, applied,
                   nfaults>>

\* receive_json returns frame f and the loop body runs up to its next await;
\* k is the log call that raises, now the clock an insert reads.
HandleFrame(s, f, k, now) ==
    LET b   == LoopBody(s, f, k, now)
        p   == Frame("broadcast", b.log, b.applied, room[s])
        run == BroadcastRun(s, p, 1, <<>>, waiters)
        out == Cleanup(s, room[s], "error", clients, lockHolder, waiters, conn[s])
    IN  /\ pc[s] = "active"
        /\ k <= LogCalls(s, f)
        /\ k # 0 => nfaults < MaxFaults
        /\ b.nextId # nextId => nextId <= MaxMsgs
        /\ b.applied # applied => Mutations < MaxMutations
        /\ nfaults' = IF k # 0 THEN nfaults + 1 ELSE nfaults
        /\ log' = b.log
        /\ nextId' = b.nextId
        /\ applied' = b.applied
        /\ CASE b.result = "continue" ->
                  UNCHANGED <<clients, lockHolder, waiters, pc, conn, updated, bidx,
                              to_remove, inbox>>
             [] b.result = "raise" ->
                  /\ clients' = out.clients
                  /\ lockHolder' = out.holder
                  /\ waiters' = out.waiters
                  /\ pc' = [pc EXCEPT ![s] = out.pcs]
                  /\ conn' = [conn EXCEPT ![s] = out.conns]
                  /\ UNCHANGED <<updated, bidx, to_remove, inbox>>
             [] b.result = "broadcast" /\ lockHolder = NoSess ->
                  /\ updated' = [updated EXCEPT ![s] = run.updated]
                  /\ clients' = run.clients
                  /\ inbox' = run.inbox
                  /\ to_remove' = run.to_remove
                  /\ bidx' = run.bidx
                  /\ pc' = [pc EXCEPT ![s] = run.pcs]
                  /\ lockHolder' = run.holder
                  /\ waiters' = run.waiters
                  /\ UNCHANGED conn
             [] b.result = "broadcast" /\ lockHolder # NoSess ->
                  /\ updated' = [updated EXCEPT ![s] = p]
                  /\ waiters' = Enqueue(waiters, s)
                  /\ pc' = [pc EXCEPT ![s] = "bcast_wait"]
                  /\ UNCHANGED <<clients, lockHolder, conn, bidx, to_remove, inbox>>
        /\ UNCHANGED <<username, room>>

\* The lock holder goes on with its broadcast block: from the acquisition it
\* waited for (i = 1), or from the send_json it was suspended in.
BroadcastStep(s) ==
    LET first == pc[s] = "bcast_wait"
        run == BroadcastRun(s, updated[s], IF first THEN 1 ELSE bidx,
                            IF first THEN <<>> ELSE to_remove, waiters)
    IN  /\ pc[s] \in {"bcast_wait", "bcast"}
        /\ lockHolder = s
        /\ (pc[s] = "bcast" /\ bidx <= Len(clients[room[s]]))
              => ~SendHangs(clients[room[s]][bidx])
        /\ updated' = [updated EXCEPT ![s] = run.updated]
        /\ clients' = run.clients
        /\ inbox' = run.inbox
        /\ to_remove' = run.to_remove
        /\ bidx' = run.bidx
        /\ pc' = [pc EXCEPT ![s] = run.pcs]
        /\ lockHolder' = run.holder
        /\ waiters' = run.waiters
        /\ UNCHANGED <<log, nextId, conn, username, room, applied, nfaults>>

\* receive_json raises WebSocketDisconnect: the client has gone (319-322).
Disconnect(s) ==
    LET out == Cleanup(s, room[s], "disconnect", clients, lockHolder, waiters, conn[s])
    IN  /\ pc[s] = "active"
        /\ conn[s] = "broken"
        /\ clients' = out.clients
        /\ lockHolder' = out.holder
        /\ waiters' = out.waiters
        /\ pc' = [pc EXCEPT ![s] = out.pcs]
        /\ conn' = [conn EXCEPT ![s] = out.conns]
        /\ UNCHANGED <<log, nextId, username, room, updated, bidx, to_remove, inbox,
                       applied, nfaults>>

\* A coroutine waiting at line 320 or 324 is handed the lock.
CleanupGranted(s) ==
    LET kind == IF pc[s] = "cleanup_error" THEN "error" ELSE "disconnect"
        rel  == Release(waiters)
        out  == Cleanup(s, room[s], kind, clients, NoSess, rel.waiters, conn[s])
    IN  /\ pc[s] \in {"cleanup_disconnect", "cleanup_error"}
        /\ lockHolder = s
        /\ clients' = out.clients
        /\ lockHolder' = rel.holder
        /\ waiters' = rel.waiters
        /\ pc' = [pc EXCEPT ![s] = out.pcs]
        /\ conn' = [conn EXCEPT ![s] = out.conns]
        /\ UNCHANGED <<log, nextId, username, room, updated, bidx, to_remove, inbox,
                       applied, nfaults>>

\* The client of an accepted websocket goes away.
Break(s) ==
    /\ conn[s] = "open"
    /\ pc[s] \notin {"idle", "closed"}
    /\ nfaults < MaxFaults
    /\ nfaults' = nfaults + 1
    /\ conn' = [conn EXCEPT ![s] = "broken"]
    /\ UNCHANGED <<log, nextId, clients, lockHolder, waiters, pc, username, room,
                   updated, bidx, to_remove, inbox, applied>>

\* The client of an accepted websocket stops reading and never resumes.
Stall(s) ==
    /\ conn[s] = "open"
    /\ pc[s] \notin {"idle", "closed"}
    /\ nfaults < MaxFaults
    /\ nfaults' = nfaults + 1
    /\ conn' = [conn EXCEPT ![s] = "stalled"]
    /\ UNCHANGED <<log, nextId, clients, lockHolder, waiters, pc, username, room,
                   updated, bidx, to_remove, inbox, applied>>

Next ==
    \/ \E s \in Sess : \E q \in ConnectParams(s), fails \in BOOLEAN :
          Connect(s, q[1], q[2], fails)
    \/ \E s \in Sess, fails \in BOOLEAN, kind \in CleanupKinds : JoinGranted(s, fails, kind)
    \/ \E s \in Sess, f \in Frames, k \in FailChoices, now \in Times :
          HandleFrame(s, f, k, now)
    \/ \E s \in Sess : BroadcastStep(s)
    \/ \E s \in Sess : Disconnect(s)
    \/ \E s \in Sess : CleanupGranted(s)
    \/ \E s \in Sess : Break(s)

Spec == Init /\ [][Next]_vars

\* ---------------------------------------------- established connections
\* The lock-contention model: every websocket is connected and none of the
\* clients goes away, so that all of them can queue for clients_lock.
\* InitJoined is the state after every websocket has connected to an empty log, one after
\* the other and each let in: all are registered, in arrival order, and each
\* has been sent the empty snapshot.  who gives each its user and room: all
\* share room work, the first and the last also share a user.
Established == [s \in Sess |-> <<IF s = 2 THEN "bob" ELSE "alice", "work">>]

RECURSIVE Arrived(_, _, _)
Arrived(who, r, s) ==
    IF s > NSess THEN <<>>
    ELSE (IF who[s][2] = r THEN <<s>> ELSE <<>>) \o Arrived(who, r, s + 1)

InitJoined ==
    LET who == Established IN
        /\ log = <<>>
        /\ nextId = 1
        /\ clients = [r \in Rooms |-> Arrived(who, r, 1)]
        /\ lockHolder = NoSess
        /\ waiters = <<>>
        /\ pc = [s \in Sess |-> "active"]
        /\ conn = [s \in Sess |-> "open"]
        /\ username = [s \in Sess |-> who[s][1]]
        /\ room = [s \in Sess |-> who[s][2]]
        /\ updated = [s \in Sess |-> NoView]
        /\ bidx = 0
        /\ to_remove = <<>>
        /\ inbox = [s \in Sess |-> <<[kind |-> "snapshot", view |-> <<>>, ver |-> 0]>>]
        /\ applied = [r \in Rooms |-> 0]
        /\ nfaults = 0

NextJoined ==
    \/ \E s \in Sess, f \in Frames, k \in FailChoices, now \in Times :
          HandleFrame(s, f, k, now)
    \/ \E s \in Sess : BroadcastStep(s)
    \/ \E s \in Sess : CleanupGranted(s)

SpecJoined == InitJoined /\ [][NextJoined]_vars

\* ------------------------------------------------------- stalled clients
\* The established connections with a client that may stop reading.  The
\* event loop runs every coroutine that is ready: the holder of clients_lock
\* whose send_json has completed goes on, and so does a handler that has been
\* handed the lock.  Whether a client sends a frame is up to the client.
NextLive ==
    \/ NextJoined
    \/ \E s \in Sess : Stall(s)

SpecLive ==
    /\ InitJoined
    /\ [][NextLive]_vars
    /\ \A s \in Sess : WF_vars(BroadcastStep(s))
    /\ \A s \in Sess : WF_vars(CleanupGranted(s))

\* ------------------------------------------------------ a late connection
\* Two websockets are connected (bob's, then alice's, both in room work) and
\* have been sent the empty snapshot; a third, alice's, connects to the same
\* room at any later moment.
InitLate ==
    /\ log = <<>>
    /\ nextId = 1
    /\ clients = [r \in Rooms |-> IF r = "work" THEN <<2, 3>> ELSE <<>>]
    /\ lockHolder = NoSess
    /\ waiters = <<>>
    /\ pc = [s \in Sess |-> IF s = 1 THEN "idle" ELSE "active"]
    /\ conn = [s \in Sess |-> IF s = 1 THEN "idle" ELSE "open"]
    /\ username = [s \in Sess |-> IF s = 1 THEN NONE ELSE Established[s][1]]
    /\ room = [s \in Sess |-> IF s = 1 THEN NONE ELSE "work"]
    /\ updated = [s \in Sess |-> NoView]
    /\ bidx = 0
    /\ to_remove = <<>>
    /\ inbox = [s \in Sess |->
                 IF s = 1 THEN <<>> ELSE <<[kind |-> "snapshot", view |-> <<>>, ver |-> 0]>>]
    /\ applied = [r \in Rooms |-> 0]
    /\ nfaults = 0

\* No log call raises here (k = 0, fails = FALSE) and no client goes away.
NextLate ==
    \/ Connect(1, "signed:alice", "work", FALSE)
    \/ \E s \in Sess : JoinGranted(s, FALSE, "error")
    \/ \E s \in Sess, f \in Frames, now \in Times : HandleFrame(s, f, 0, now)
    \/ \E s \in Sess : BroadcastStep(s)
    \/ \E s \in Sess : CleanupGranted(s)

SpecLate == InitLate /\ [][NextLate]_vars

\* ================================================================= claims
Last(q) == q[Len(q)]
Registered(s) == \E r \in Rooms : s \in Range(clients[r])
Requests == Sess \X Frames \X FailChoices \X Times

\* C1 (ownership): a pass of the receive loop handling an edit or delete frame
\* from a connection whose user is not the author of the row the frame names
\* leaves that row in the log exactly as it was: no step that changes or
\* removes the row is such a pass.
C1_Ownership ==
    [][log' # log =>
         \A q \in Requests :
             LET s == q[1]  f == q[2] IN
             ~ ( /\ f.json /\ f.action \in {"edit", "delete"}
                 /\ f.id \in DOMAIN log
                 /\ log[f.id].name # username[s]
                 /\ (f.id \notin DOMAIN log' \/ log'[f.id] # log[f.id])
                 /\ HandleFrame(s, f, q[3], q[4]) )]_vars

\* C1 witness: a row exists whose author is not the user of a connection
\* that sits in its receive loop; the refused request leaves this very state.
C1_Witness ==
    \E s \in Sess, i \in DOMAIN log :
        /\ pc[s] = "active"
        /\ log[i].name # username[s]
        /\ log[i].text = "hi"
        /\ room[s] = log[i].room

\* C2 (send identity): a pass handling a send frame whose insert succeeds
\* stores a new row whose author is the user verified when the connection was
\* made, whatever name the frame carries.
C2_SendIdentity ==
    [][nextId' # nextId =>
         \A q \in Requests :
             LET s == q[1]  f == q[2] IN
             ( /\ f.json /\ f.action = "send"
               /\ pc[s] = "active"
               /\ HandleFrame(s, f, q[3], q[4]) )
             => ( /\ nextId \notin DOMAIN log
                  /\ nextId \in DOMAIN log'
                  /\ log'[nextId].name = username[s]
                  /\ username[s] \in Users )]_vars

\* C2 witness: alice's row stored from a frame that named bob (every frame
\* with a message part names bob).
C2_Witness ==
    \E i \in DOMAIN log :
        /\ log[i].name = "alice"
        /\ log[i].text = "hi"
        /\ \A m \in MsgParts : m # <<>> => m[1].name # "alice"

\* C3 (convergence): whenever no broadcast is running or waiting, and no log
\* call has raised and no client has vanished, every connection registered in
\* its room and sitting in its receive loop has as its last frame the current
\* list of its room.
Settled == lockHolder = NoSess /\ \A s \in Sess : pc[s] \notin {"bcast", "bcast_wait"}

C3_Convergence ==
    (Settled /\ nfaults = 0) =>
        \A s \in Sess :
            (pc[s] = "active" /\ s \in Range(clients[room[s]]))
            => ( /\ inbox[s] # <<>>
                 /\ Last(inbox[s]).view = list_messages_for_room(log, room[s]) )

\* C4 (broadcast after mutation): a pass in which no log call raises and which
\* inserts, updates or deletes a row of room R starts a broadcast of the new
\* list of R to the connections registered in R.
C4_BroadcastAfterMutation ==
    [][applied' # applied =>
         \A q \in Requests :
             LET s == q[1]
                 f == q[2]
                 R == IF f.action = "send" THEN room[s] ELSE log[f.id].room
             IN  ( /\ q[3] = 0 /\ f.json /\ pc[s] = "active"
                   /\ f.action \in {"send", "edit", "delete"}
                   /\ f.action # "send" => f.id \in DOMAIN log
                   /\ HandleFrame(s, f, 0, q[4]) )
                 => \/ clients[R] = <<>>
                    \/ /\ room[s] = R
                       /\ pc'[s] \in {"bcast", "bcast_wait"}
                       /\ updated'[s].view = list_messages_for_room(log', R)]_vars

\* C5 (fan-out isolation): when a broadcast block ends, it has gone through the
\* whole registry of its room; every websocket whose send failed is gone from
\* that registry, and every other one is still in it and has the broadcast
\* view as the last frame it was sent.
C5_FanOutIsolation ==
    [][\A s \in Sess :
         (pc[s] = "bcast" /\ pc'[s] = "active")
         => LET cs == clients[room[s]] IN
            /\ bidx = Len(cs) + 1
            /\ \A c \in Range(cs) :
                 IF c \in Range(to_remove)
                 THEN c \notin Range(clients'[room[s]])
                 ELSE /\ c \in Range(clients'[room[s]])
                      /\ inbox[c] # <<>>
                      /\ Last(inbox[c]) = updated[s]]_vars

\* C5 witness: x registered before y in the same room; the room's only
\* broadcast failed at x, which is pruned though its coroutine still runs, and
\* reached y, which is still registered.
C5_Witness ==
    \E x \in Sess, y \in Sess :
        /\ x < y /\ room[x] = room[y] /\ room[x] \in Rooms
        /\ lockHolder = NoSess
        /\ pc[x] = "active" /\ conn[x] = "broken"
        /\ x \notin Range(clients[room[x]])
        /\ y \in Range(clients[room[y]])
        /\ applied[room[x]] = 1
        /\ inbox[x] # <<>> /\ Last(inbox[x]).kind = "snapshot"
        /\ inbox[y] # <<>> /\ Last(inbox[y]).kind = "broadcast"

C7_BadFrameKeepsSession ==
    [][\A q \in Requests :
         LET s == q[1]  f == q[2] IN
         ( /\ ~f.json \/ ~WSIncomingValid(f)
           /\ pc[s] = "active"
           /\ HandleFrame(s, f, q[3], q[4]) )
         => ( /\ pc'[s] = "active"
              /\ clients' = clients
              /\ log' = log
              /\ inbox' = inbox )]_vars

\* C8 (log unavailable): a pass in which a log call raises leaves the
\* coroutine in its receive loop, leaves it registered if it was, and sends
\* nothing to any other websocket.
C8_LogFailureKeepsSession ==
    [][nfaults' # nfaults =>
         \A q \in Requests :
             LET s == q[1]  f == q[2] IN
             ( /\ q[3] # 0
               /\ pc[s] = "active"
               /\ HandleFrame(s, f, q[3], q[4]) )
             => ( /\ pc'[s] = "active"
                  /\ s \in Range(clients[room[s]]) => s \in Range(clients'[room[s]])
                  /\ \A t \in Sess \ {s} : inbox'[t] = inbox[t] )]_vars

\* C9 (cleanup): a coroutine that got past the handshake and has ended is in
\* no room's registry, and the step that ends it takes out of the registries
\* its own websocket and nothing else.
Without(q, s) == SelectSeq(q, LAMBDA x : x # s)

C9_Cleanup ==
    [][\A s \in Sess :
         (pc'[s] = "closed" /\ room'[s] # NONE)
         => \A r \in Rooms :
              /\ s \notin Range(clients'[r])
              /\ pc[s] # "closed" => clients'[r] = Without(clients[r], s)]_vars

\* C9 witness: a connection that was let in, was sent its snapshot and lost
\* its client has ended, while another one is still registered in its room.
C9_Witness ==
    \E s \in Sess, t \in Sess :
        /\ s # t /\ room[s] = room[t] /\ room[s] \in Rooms
        /\ pc[s] = "closed" /\ conn[s] = "broken" /\ inbox[s] # <<>>
        /\ t \in Range(clients[room[t]])
        /\ log # <<>>

\* C10 (bootstrap rejection): a connection attempt without a token, with a
\* token that does not verify, or with a room other than work and school ends
\* at once; it changes neither the registry nor the log nor what any
\* websocket has been sent, and the rejected websocket is never registered
\* and never sent a frame.
C10_BootstrapRejection ==
    [][\A s \in Sess :
         /\ (pc[s] = "idle" /\ pc'[s] # "idle")
            => \A q \in ConnectParams(s), fails \in BOOLEAN :
                 ( /\ q[1] \notin {"signed:alice", "signed:bob"} \/ q[2] \notin {"work", "school"}
                   /\ Connect(s, q[1], q[2], fails) )
                 => ( /\ pc'[s] = "closed"
                      /\ clients' = clients
                      /\ inbox' = inbox
                      /\ log' = log )
         /\ (pc'[s] = "closed" /\ room'[s] = NONE)
            => ( /\ inbox'[s] = <<>>
                 /\ \A r \in Rooms : s \notin Range(clients'[r]) )]_vars

\* C10 witness: a rejected attempt next to a registered connection and a
\* non-empty log.
C10_Witness ==
    \E s \in Sess, t \in Sess :
        /\ pc[s] = "closed" /\ room[s] = NONE /\ conn[s] = "closed"
        /\ Registered(t)
        /\ log # <<>>

\* C11 (idempotent deregistration): removing a websocket from a registry
\* that does not hold it leaves the registry as it is, removing it twice
\* gives what removing it once gives, and a handler that ends a coroutine
\* whose websocket is already out of its room's registry changes no registry.
C11_IdempotentDeregister ==
    /\ [](\A r \in Rooms, s \in Sess :
            /\ s \notin Range(clients[r]) => Deregister(clients[r], s) = clients[r]
            /\ Deregister(Deregister(clients[r], s), s) = Deregister(clients[r], s))
    /\ [][\A s \in Sess :
            ( /\ pc[s] # "closed" /\ pc'[s] = "closed"
              /\ room[s] \in Rooms
              /\ s \notin Range(clients[room[s]]) )
            => clients' = clients]_vars

\* C11 witness: a coroutine that waited for clients_lock in its disconnect
\* handler has been handed the lock by a broadcast that pruned its websocket:
\* its guarded removal now runs on a registry that no longer holds it, while
\* another websocket is still registered there.
C11_Witness ==
    \E x \in Sess :
        /\ pc[x] = "cleanup_disconnect"
        /\ lockHolder = x
        /\ x \notin Range(clients[room[x]])
        /\ clients[room[x]] # <<>>

\* C12 (room independence): no coroutine waits for clients_lock while the
\* lock is held for an operation on another room.
C12_RoomIndependence ==
    lockHolder # NoSess => \A s \in Range(waiters) : room[s] = room[lockHolder]

\* C13 (slow recipient): once a coroutine has a view to broadcast, every
\* websocket registered in its room whose client is reading is eventually
\* sent that view, unless it stops reading, closes or leaves the registry
\* first.
C13_SlowRecipient ==
    \A s \in Sess, y \in Sess, v \in 1..MaxMutations :
        ( /\ pc[s] \in {"bcast", "bcast_wait"}
          /\ updated[s].ver = v
          /\ y \in Range(clients[room[s]])
          /\ conn[y] = "open" )
        ~> ( \/ conn[y] # "open"
             \/ ~Registered(y)
             \/ \E i \in 1..Len(inbox[y]) :
                    inbox[y][i].kind = "broadcast" /\ inbox[y][i].ver = v )

\* C14 (registration ordered with broadcasts): the registries do not change
\* while a broadcast block is between two of its sends; a broadcast frame is
\* sent only to a websocket registered in the broadcasting coroutine's room,
\* by the coroutine holding clients_lock; and a block that ends has gone
\* through the whole registry of its room.
C14_RegistrationOrder ==
    [][/\ ( /\ lockHolder # NoSess
            /\ pc[lockHolder] = "bcast" /\ pc'[lockHolder] = "bcast" )
          => clients' = clients
       /\ \A c \in Sess :
            (inbox'[c] # inbox[c] /\ Last(inbox'[c]).kind = "broadcast")
            => /\ c \in Range(clients[room[c]])
               /\ lockHolder' # NoSess
               /\ room[lockHolder'] = room[c]
               /\ updated'[lockHolder'] = Last(inbox'[c])
       /\ \A s \in Sess :
            (pc[s] = "bcast" /\ pc'[s] = "active")
            => /\ bidx = Len(clients[room[s]]) + 1
               /\ \A c \in Sess : inbox'[c] = inbox[c]]_vars

\* C14 witness: y registered after the first mutation of its room (its
\* snapshot shows it) and was sent a later broadcast; x, of the same room, had
\* ended before and was not sent it.
C14_Witness ==
    \E x \in Sess, y \in Sess :
        /\ x # y /\ room[x] = room[y] /\ room[x] \in Rooms
        /\ pc[x] = "closed" /\ inbox[x] # <<>>
        /\ Len(inbox[y]) >= 2
        /\ inbox[y][1].kind = "snapshot" /\ inbox[y][1].ver >= 1
        /\ Last(inbox[y]).kind = "broadcast"
        /\ Last(inbox[x]).ver < Last(inbox[y]).ver
        /\ y \in Range(clients[room[y]])

\* C15 (one membership): every coroutine in its receive loop has its
\* websocket exactly once in its room's registry and in no other registry.
C15_OneMembership ==
    \A s \in Sess :
        pc[s] = "active"
        => /\ Cardinality({i \in 1..Len(clients[room[s]]) : clients[room[s]][i] = s}) = 1
           /\ \A r \in Rooms \ {room[s]} : s \notin Range(clients[r])

\* C16 (message content): no row of the log has both text and img absent.
C16_ContentPresent ==
    \A i \in DOMAIN log : log[i].text # NONE \/ log[i].img # NONE

\* C17 (edit frame): a pass handling an edit frame that changes the log
\* leaves the set of ids as it is, leaves id, room, name and ts of the row the
\* frame names as they are, and leaves every other row as it is.
C17_EditFrame ==
    [][log' # log =>
         \A q \in Requests :
             LET s == q[1]  f == q[2] IN
             ( /\ f.json /\ f.action = "edit"
               /\ f.id \in DOMAIN log
               /\ pc[s] = "active"
               /\ HandleFrame(s, f, q[3], q[4]) )
             => /\ DOMAIN log' = DOMAIN log
                /\ nextId' = nextId
                /\ \A i \in DOMAIN log :
                     IF i = f.id
                     THEN /\ log'[i].id = log[i].id
                          /\ log'[i].room = log[i].room
                          /\ log'[i].name = log[i].name
                          /\ log'[i].ts = log[i].ts
                     ELSE log'[i] = log[i]]_vars

\* C17 witness: two rows were inserted, none was deleted and one was then
\* edited; the two differ in their text.
C17_Witness ==
    /\ nextId = 3
    /\ DOMAIN log = {1, 2}
    /\ Mutations = 3
    /\ log[1].text # log[2].text
    /\ log[1].name = log[2].name

\* C18 (absent target): a pass in which no log call raises, handling an edit
\* or delete frame whose id is left out or names no row of the log, changes
\* neither the log nor the registries, sends no frame and leaves the
\* coroutine in its receive loop.
C18_AbsentTargetIgnored ==
    [][(log' # log \/ nextId' # nextId \/ clients' # clients \/ inbox' # inbox \/ pc' # pc)
       => \A q \in Requests :
            LET s == q[1]  f == q[2] IN
            ~ ( /\ q[3] = 0
                /\ f.json /\ f.action \in {"edit", "delete"}
                /\ f.id \notin DOMAIN log
                /\ pc[s] = "active"
                /\ HandleFrame(s, f, 0, q[4]) )]_vars

\* C18 witness: alice's only row has been inserted and deleted; alice is in
\* her receive loop, registered, with the empty list as her last frame.  An
\* edit of id 1 received now must not bring the row back.
C18_Witness ==
    /\ nextId = 2
    /\ log = <<>>
    /\ Mutations = 2
    /\ \E s \in Sess :
         /\ pc[s] = "active" /\ username[s] = "alice"
         /\ s \in Range(clients[room[s]])
         /\ Last(inbox[s]).kind = "broadcast"
         /\ Last(inbox[s]).view = <<>>

\* C19 (initial snapshot): the first frame a websocket is sent is the
\* snapshot, every later frame is a broadcast, and no broadcast shows its
\* room's log after fewer mutations than the snapshot does.
C19_SnapshotFirst ==
    \A s \in Sess :
        inbox[s] # <<>>
        => /\ inbox[s][1].kind = "snapshot"
           /\ \A i \in 2..Len(inbox[s]) :
                /\ inbox[s][i].kind = "broadcast"
                /\ inbox[s][i].ver >= inbox[s][1].ver

\* C20 (room isolation): a pass handling an edit or delete frame that names a
\* row of a room other than the coroutine's own leaves that row in the log
\* exactly as it was.
C20_RoomIsolation ==
    [][log' # log =>
         \A q \in Requests :
             LET s == q[1]  f == q[2] IN
             ~ ( /\ f.json /\ f.action \in {"edit", "delete"}
                 /\ f.id \in DOMAIN log
                 /\ pc[s] = "active"
                 /\ log[f.id].room # room[s]
                 /\ (f.id \notin DOMAIN log' \/ log'[f.id] # log[f.id])
                 /\ HandleFrame(s, f, q[3], q[4]) )]_vars

====
